---- MODULE Spec2Model ----
(***************************************************************************)
(* The API token service of packages/core/admin/server/services/          *)
(* api-token.js: create, update, revoke, getBy, getById, getByName, list   *)
(* and exists over the token and token-permission tables of the store.     *)
(*                                                                         *)
(* A JavaScript object is a function whose DOMAIN is the set of its keys,  *)
(* so a key that is absent (undefined) is a key outside the DOMAIN.        *)
(* Every await of an async function is a separate step, so the states      *)
(* between the store calls of one service call are states of the model.   *)
(***************************************************************************)
EXTENDS Integers, Sequences, FiniteSets, TLC

\* ------------------------------------------------------------------ bounds
\* create calls the model issues (each draws one fresh secret)
MaxCreates == 2
\* permission rows the store inserts over a run (row ids 1..MaxPermRows)
MaxPermRows == 3
\* longest permissions array a caller passes
MaxPermLen == 2

\* ------------------------------------------------------------------ values
Types == {"read-only", "full-access", "custom"}
Actions == {"a", "b"}
Names == {"n1", "n2"}
\* what reading a missing property yields in JavaScript
Undefined == "undefined"
Null == "null"
\* the callers: Spec runs the calls of one caller, one after the other
SeqSlots == {1}
Slots == {1, 2}

SELECT_FIELDS == {"id", "name", "description", "type", "createdAt"}
POPULATE_FIELDS == {"permissions"}

\* crypto.randomBytes(128).toString('hex'): the k-th create call's secret
Secret(k) == [plain |-> k]
\* hash(accessKey): a keyed digest, injective and never equal to a plaintext
hash(accessKey) == [hmac |-> accessKey.plain]

VARIABLES
    tokens,        \* rows of admin::api-token
    permissions,   \* rows of admin::token-permission
    nextTokenId,   \* the store's next token id
    nextPermId,    \* the store's next permission id
    nextSecret,    \* create calls issued so far, plus one
    calls,         \* per caller: the service call in flight or last completed
    shown,         \* per secret: the responses that carried its plaintext
    proc           \* the process: the configured salt, the environment's
                   \* API_TOKEN_SALT, the warnings emitted so far

vars == <<tokens, permissions, nextTokenId, nextPermId, nextSecret, calls, shown,
          proc>>

\* ------------------------------------------------------------- JS helpers
Has(obj, key) == key \in DOMAIN obj

\* omit('permissions', attributes)
omit(key, obj) == [k \in (DOMAIN obj) \ {key} |-> obj[k]]

\* { ...a, ...b }
Spread(a, b) == [k \in (DOMAIN a) \cup (DOMAIN b) |-> IF k \in DOMAIN b THEN b[k] ELSE a[k]]

\* an array value is truthy in JavaScript, the empty array included;
\* only an absent key is falsy here
Truthy(obj, key) == Has(obj, key)

\* map(path, objects): the property of each object, undefined where missing
PropertyOfObjects(path, objects) ==
    [i \in 1..Len(objects) |->
        IF Has(objects[i], path) THEN objects[i][path] ELSE Undefined]

\* map(path, strings): a string primitive has no such property
PropertyOfStrings(path, strings) == [i \in 1..Len(strings) |-> Undefined]

RECURSIVE SeqToSet(_)
SeqToSet(seq) == IF seq = <<>> THEN {} ELSE {Head(seq)} \cup SeqToSet(Tail(seq))

\* lodash/fp differenceBy(iteratee, array, values), given the iteratee's
\* value on each element of array (keys) and of values (valueKeys): the
\* elements of array whose key is the key of no element of values, in order
RECURSIVE differenceBy(_, _, _)
differenceBy(array, keys, valueKeys) ==
    IF array = <<>> THEN <<>>
    ELSE LET rest == differenceBy(Tail(array), Tail(keys), valueKeys)
         IN  IF Head(keys) \in SeqToSet(valueKeys) THEN rest
             ELSE <<Head(array)>> \o rest

\* differenceBy reads an argument that is no array (undefined) as no elements
ArrayOrEmpty(obj, key) == IF Has(obj, key) THEN obj[key] ELSE <<>>

\* ------------------------------------------------------------- the store
\* a where clause matches a row on every key it names
Matches(row, where) == \A k \in DOMAIN where : Has(row, k) /\ row[k] = where[k]

\* a findOne that ignores its where clause
FindOneFirstRow(rows, where) ==
    IF rows = {} THEN {} ELSE {CHOOSE r \in rows : \A q \in rows : r.id <= q.id}

\* query(...).findOne({ where }): the first matching row, or none (null)
FindOne(rows, where) ==
    LET m == {r \in rows : Matches(r, where)}
    IN  IF m = {} THEN {} ELSE {CHOOSE r \in m : \A q \in m : r.id <= q.id}

\* rows in ascending id order, as the array the store returns
RECURSIVE ById(_)
ById(rows) ==
    IF rows = {} THEN <<>>
    ELSE LET r == CHOOSE x \in rows : \A q \in rows : x.id <= q.id
         IN  <<r>> \o ById(rows \ {r})

\* populate: ['permissions'] and entityService.load(.., 'permissions'):
\* the permission rows of one token, without the back-reference
PermissionsOf(perms, tokenId) ==
    LET own == ById({p \in perms : p.token = tokenId})
    IN  [i \in 1..Len(own) |-> [id |-> own[i].id, action |-> own[i].action]]

\* a projection that leaves out no column
SelectEveryField(row) == row

\* select: SELECT_FIELDS
Select(row) == [k \in (DOMAIN row) \cap SELECT_FIELDS |-> row[k]]

\* select: SELECT_FIELDS, populate: POPULATE_FIELDS
SelectPopulate(row, perms) ==
    Spread(Select(row), [permissions |-> PermissionsOf(perms, row.id)])

\* The store keeps the values it is given: a datum whose action is undefined
\* becomes a row whose action reads back as undefined, and a where clause
\* matches a row by equality of values.
\* a createMany that inserts only the first datum
CreateManyFirstRow(data, firstId) ==
    {Spread(data[i], [id |-> firstId + i - 1]) :
        i \in 1..(IF Len(data) = 0 THEN 0 ELSE 1)}

\* createMany({ data }): one row per datum, ids in array order
CreateManyRows(data, firstId) ==
    {Spread(data[i], [id |-> firstId + i - 1]) : i \in 1..Len(data)}

\* deleteMany({ where: { action: [...] } }): every row whose action is listed
DeleteManyByAction(perms, actions) == {p \in perms : p.action \notin actions}

\* the store's referential behaviour on deleting a token row: the permission
\* rows that reference it go with it
CascadeDelete(perms, tokenId) == {p \in perms : p.token # tokenId}

\* ----------------------------------------------------------- validation
NonCustomError == "Non-custom tokens should not references permissions"
MissingError == "Missing permissions attributes for custom token"
NoError == "none"

assertCustomTokenPermissionsValidity(attributes) ==
    IF (~ Has(attributes, "type") \/ attributes.type # "custom")
            /\ Truthy(attributes, "permissions")
    THEN NonCustomError
    ELSE IF Has(attributes, "type") /\ attributes.type = "custom"
            /\ ~ Truthy(attributes, "permissions")
    THEN MissingError
    ELSE NoError

\* ------------------------------------------------------------ the callers
RECURSIVE SeqsUpTo(_, _)
SeqsUpTo(S, n) ==
    IF n = 0 THEN {<<>>}
    ELSE LET shorter == SeqsUpTo(S, n - 1)
         IN  shorter \cup {Append(q, x) : q \in shorter, x \in S}

PermLists == SeqsUpTo(Actions, MaxPermLen)

\* the attributes create is called with: type and name, permissions optional
CreateAttributes ==
    {[type |-> t, name |-> n] : t \in Types, n \in Names}
    \cup {[type |-> t, name |-> n, permissions |-> p] :
            t \in Types, n \in Names, p \in PermLists}

\* the attributes update is called with: a new type or a new name or
\* neither, each with or without a permissions array
UpdateAttributes ==
    LET base == {<<>>} \cup {[name |-> n] : n \in Names}
                    \cup {[type |-> t] : t \in Types}
    IN  base \cup {Spread(b, [permissions |-> p]) : b \in base, p \in PermLists}

TokenIds == 1..MaxCreates

\* the where clauses getBy is called with, the empty object included
Wheres ==
    {<<>>} \cup {[id |-> i] : i \in TokenIds} \cup {[name |-> n] : n \in Names}
    \cup {[id |-> i, name |-> n] : i \in {1}, n \in Names}

NoLocal == <<>>
NoResult == [kind |-> "none"]
Idle == [op |-> "none", pc |-> "idle", args |-> <<>>, local |-> NoLocal,
         result |-> NoResult, queries |-> <<>>]

Free(s) == calls[s].pc = "idle"

\* a call starts with its arguments
Begin(op, args) ==
    [op |-> op, pc |-> "begin", args |-> args, local |-> NoLocal,
     result |-> NoResult, queries |-> <<>>]

\* a call issues one more store call
Query(c, name) == [c EXCEPT !.queries = Append(@, name)]

\* a call returns or throws
Return(c, result) == [c EXCEPT !.pc = "done", !.result = result, !.local = NoLocal]

Ok(val) == [kind |-> "ok", val |-> val]
Error(msg) == [kind |-> "error", err |-> msg]
NullResult == [kind |-> "null"]

\* the objects a response carries
Objects(result) ==
    IF result.kind = "ok" THEN <<result.val>>
    ELSE IF result.kind = "list" THEN result.val
    ELSE <<>>

\* the responses so far that carried secret k: its plaintext, its stored hash
Count(result, key) ==
    LET objs == Objects(result)
    IN  Cardinality({i \in 1..Len(objs) :
            Has(objs[i], "accessKey") /\ objs[i].accessKey = key})

Shown(result) ==
    [k \in TokenIds |->
        [plain |-> shown[k].plain + Count(result, Secret(k)),
         hmac |-> shown[k].hmac + Count(result, hash(Secret(k)))]]

\* slot s completes its call with result, the store variables set elsewhere
Complete(s, c, result) ==
    /\ calls' = [calls EXCEPT ![s] = Return(c, result)]
    /\ shown' = Shown(result)
    /\ UNCHANGED proc

Continue(s, c, pc, local) ==
    /\ calls' = [calls EXCEPT ![s] = [c EXCEPT !.pc = pc, !.local = local]]
    /\ UNCHANGED <<shown, proc>>

StoreUnchanged == UNCHANGED <<tokens, permissions, nextTokenId, nextPermId>>

PersistenceError == "PersistenceError"

\* room left in the permission table for the rows a call may insert
RoomFor(attributes) ==
    IF Has(attributes, "permissions")
    THEN nextPermId + Len(attributes.permissions) - 1 <= MaxPermRows
    ELSE TRUE

\* the values the salt of the configuration and the environment variable
\* API_TOKEN_SALT may hold: not set, the empty string, a key
SaltValues == {Undefined, "", "k1", "k2"}

\* a process whose configuration holds a salt
Configured == [salt |-> "k1", API_TOKEN_SALT |-> Undefined, warnings |-> 0]

Init ==
    /\ tokens = {}
    /\ permissions = {}
    /\ nextTokenId = 1
    /\ nextPermId = 1
    /\ nextSecret = 1
    /\ calls = [s \in Slots |-> Idle]
    /\ shown = [k \in TokenIds |-> [plain |-> 0, hmac |-> 0]]
    /\ proc = Configured

\* ----------------------------------------------------------------- create
\* a create that writes the token row first and checks the attributes after
CreateWritesFirst(s) ==
    \E attributes \in CreateAttributes :
        /\ Free(s)
        /\ nextSecret <= MaxCreates
        /\ RoomFor(attributes)
        /\ nextSecret' = nextSecret + 1
        /\ tokens' = tokens \cup
                {Spread(Spread(omit("permissions", attributes),
                               [accessKey |-> hash(Secret(nextSecret))]),
                        [id |-> nextTokenId, createdAt |-> nextTokenId])}
        /\ nextTokenId' = nextTokenId + 1
        /\ UNCHANGED <<permissions, nextPermId>>
        /\ LET c == Query(Begin("create", [attributes |-> attributes]), "create")
               err == assertCustomTokenPermissionsValidity(attributes)
           IN  Complete(s, c, IF err # NoError THEN Error(err)
                              ELSE Error(PersistenceError))

\* create, up to its first await: the secret is drawn, the attributes checked
CreateBegin(s) ==
    \E attributes \in CreateAttributes :
        /\ Free(s)
        /\ nextSecret <= MaxCreates
        /\ RoomFor(attributes)
        /\ nextSecret' = nextSecret + 1
        /\ StoreUnchanged
        /\ LET c == Begin("create", [attributes |-> attributes])
               accessKey == Secret(nextSecret)
               err == assertCustomTokenPermissionsValidity(attributes)
           IN  IF err # NoError
               THEN Complete(s, c, Error(err))
               ELSE Continue(s, c, "create:token", [accessKey |-> accessKey])

\* query('admin::api-token').create(...) resolves or rejects
CreateToken(s) ==
    LET c == Query(calls[s], "create")
        attributes == c.args.attributes
        accessKey == c.local.accessKey
        row == Spread(Spread(omit("permissions", attributes),
                             [accessKey |-> hash(accessKey)]),
                      [id |-> nextTokenId, createdAt |-> nextTokenId])
        apiToken == SelectPopulate(row, permissions)
        result == Spread(apiToken, [accessKey |-> accessKey])
    IN  /\ calls[s].pc = "create:token"
        /\ UNCHANGED nextSecret
        /\ \/ /\ StoreUnchanged
              /\ Complete(s, c, Error(PersistenceError))
           \/ /\ tokens' = tokens \cup {row}
              /\ nextTokenId' = nextTokenId + 1
              /\ UNCHANGED <<permissions, nextPermId>>
              /\ IF attributes.type = "custom"
                 THEN Continue(s, c, "create:permissions",
                               [apiToken |-> apiToken, result |-> result])
                 ELSE Complete(s, c, Ok(result))

\* query('admin::token-permission').createMany(...) resolves or rejects
CreatePermissions(s) ==
    LET c == Query(calls[s], "createMany")
        attributes == c.args.attributes
        apiToken == c.local.apiToken
        data == [i \in 1..Len(attributes.permissions) |->
                    [action |-> attributes.permissions[i], token |-> apiToken.id]]
        rows == CreateManyRows(data, nextPermId)
    IN  /\ calls[s].pc = "create:permissions"
        /\ UNCHANGED <<nextSecret, tokens, nextTokenId>>
        /\ \/ /\ UNCHANGED <<permissions, nextPermId>>
              /\ Complete(s, c, Error(PersistenceError))
           \/ /\ permissions' = permissions \cup rows
              /\ nextPermId' = nextPermId + Len(data)
              /\ Complete(s, c, Ok(Spread(c.local.result,
                                          [permissions |-> ById(rows)])))

\* ----------------------------------------------------------------- update
\* update(id, attributes), up to its second await: findOne resolves, the
\* attributes are checked against the effective type
UpdateCall(s, id, attributes) ==
    /\ Free(s)
    /\ RoomFor(attributes)
    /\ UNCHANGED nextSecret
    /\ StoreUnchanged
    /\ LET c == Query(Begin("update", [id |-> id, attributes |-> attributes]),
                      "findOne")
           found == FindOne(tokens, [id |-> id])
       IN  IF found = {}
           THEN Complete(s, c, Error("Token not found"))
           ELSE LET oldToken == CHOOSE t \in found : TRUE
                    type == IF Has(attributes, "type") THEN attributes.type
                            ELSE oldToken.type
                    err == assertCustomTokenPermissionsValidity(
                               Spread(attributes, [type |-> type]))
                IN  IF err # NoError
                    THEN Complete(s, c, Error(err))
                    ELSE Continue(s, c, "update:token", NoLocal)

UpdateBegin(s) ==
    \E id \in TokenIds, attributes \in UpdateAttributes :
        UpdateCall(s, id, attributes)

\* query('admin::api-token').update(...) resolves or rejects; when it
\* resolves, the two differences are computed from the row it returned
UpdateToken(s) ==
    LET c == Query(calls[s], "update")
        id == c.args.id
        attributes == c.args.attributes
        found == FindOne(tokens, [id |-> id])
    IN  /\ calls[s].pc = "update:token"
        /\ UNCHANGED nextSecret
        /\ \/ /\ StoreUnchanged
              /\ Complete(s, c, Error(PersistenceError))
           \/ IF found = {}
              THEN \* the row is gone: update resolves to null, token.type throws
                   /\ StoreUnchanged
                   /\ Complete(s, c, Error("TypeError"))
              ELSE LET old == CHOOSE t \in found : TRUE
                       row == Spread(old, omit("permissions", attributes))
                       token == SelectPopulate(row, permissions)
                       requested == ArrayOrEmpty(attributes, "permissions")
                   IN  /\ tokens' = (tokens \ {old}) \cup {row}
                       /\ UNCHANGED <<permissions, nextTokenId, nextPermId>>
                       /\ IF token.type = "custom"
                          THEN Continue(s, c, "update:deleteMany",
                                 [token |-> token,
                                  permissionsToDelete |->
                                      differenceBy(token.permissions,
                                          PropertyOfObjects("action", token.permissions),
                                          PropertyOfStrings("action", requested)),
                                  permissionsToCreate |->
                                      differenceBy(requested,
                                          PropertyOfStrings("action", requested),
                                          PropertyOfObjects("action", token.permissions))])
                          ELSE Continue(s, c, "update:load", [token |-> token])

\* query('admin::token-permission').deleteMany(...) resolves or rejects
UpdateDeleteMany(s) ==
    LET c == Query(calls[s], "deleteMany")
        toDelete == c.local.permissionsToDelete
        actions == SeqToSet(PropertyOfObjects("action", toDelete))
    IN  /\ calls[s].pc = "update:deleteMany"
        /\ UNCHANGED <<nextSecret, tokens, nextTokenId, nextPermId>>
        /\ \/ /\ UNCHANGED permissions
              /\ Complete(s, c, Error(PersistenceError))
           \/ /\ permissions' = DeleteManyByAction(permissions, actions)
              /\ Continue(s, c, "update:createMany", c.local)

\* query('admin::token-permission').createMany(...) resolves or rejects
UpdateCreateMany(s) ==
    LET c == Query(calls[s], "createMany")
        toCreate == c.local.permissionsToCreate
        data == [i \in 1..Len(toCreate) |->
                    [action |-> PropertyOfStrings("action", toCreate)[i],
                     token |-> c.args.id]]
    IN  /\ calls[s].pc = "update:createMany"
        /\ UNCHANGED <<nextSecret, tokens, nextTokenId>>
        /\ \/ /\ UNCHANGED <<permissions, nextPermId>>
              /\ Complete(s, c, Error(PersistenceError))
           \/ /\ permissions' = permissions \cup CreateManyRows(data, nextPermId)
              /\ nextPermId' = nextPermId + Len(data)
              /\ Continue(s, c, "update:load", c.local)

\* entityService.load('admin::api-token', token, 'permissions') resolves
UpdateLoad(s) ==
    LET c == Query(calls[s], "load")
        token == c.local.token
        loaded == PermissionsOf(permissions, token.id)
    IN  /\ calls[s].pc = "update:load"
        /\ UNCHANGED nextSecret
        /\ StoreUnchanged
        /\ Complete(s, c, Ok(Spread(token, [permissions |-> loaded])))

\* ----------------------------------------------------------------- revoke
\* a delete whose where clause names no key
RevokeWhereNothing(id) == <<>>

\* where: { id }
RevokeWhere(id) == [id |-> id]

\* query('admin::api-token').delete({ where: { id } }) resolves or rejects
revoke(s) ==
    \E id \in TokenIds :
        LET c == Query(Begin("revoke", [id |-> id]), "delete")
            found == FindOne(tokens, RevokeWhere(id))
        IN  /\ Free(s)
            /\ UNCHANGED <<nextSecret, nextTokenId, nextPermId>>
            /\ \/ /\ UNCHANGED <<tokens, permissions>>
                  /\ Complete(s, c, Error(PersistenceError))
               \/ IF found = {}
                  THEN /\ UNCHANGED <<tokens, permissions>>
                       /\ Complete(s, c, NullResult)
                  ELSE LET row == CHOOSE t \in found : TRUE
                       IN  /\ tokens' = tokens \ {row}
                           /\ permissions' = CascadeDelete(permissions, row.id)
                           /\ Complete(s, c, Ok(SelectPopulate(row, permissions)))

\* ------------------------------------------------------------------ reads
\* getBy without its guard on empty criteria
GetByUnguarded(whereParams) ==
    LET found == FindOne(tokens, whereParams)
    IN  [result |-> IF found = {} THEN NullResult
                    ELSE Ok(SelectPopulate(CHOOSE t \in found : TRUE, permissions)),
         queries |-> <<"findOne">>]

\* getBy(whereParams): what it resolves to and the store calls it makes
GetByResult(whereParams) ==
    IF Cardinality(DOMAIN whereParams) = 0
    THEN [result |-> NullResult, queries |-> <<>>]
    ELSE LET found == FindOne(tokens, whereParams)
         IN  [result |-> IF found = {} THEN NullResult
                         ELSE Ok(SelectPopulate(CHOOSE t \in found : TRUE, permissions)),
              queries |-> <<"findOne">>]

\* a call that makes at most one store read, and completes with it
ReadCompletes(s, op, args, r) ==
    Complete(s, [Begin(op, args) EXCEPT !.queries = r.queries], r.result)

getBy(s) ==
    \E whereParams \in Wheres :
        /\ Free(s)
        /\ UNCHANGED nextSecret
        /\ StoreUnchanged
        /\ ReadCompletes(s, "getBy", [whereParams |-> whereParams],
                         GetByResult(whereParams))

getById(s) ==
    \E id \in TokenIds :
        /\ Free(s)
        /\ UNCHANGED nextSecret
        /\ StoreUnchanged
        /\ ReadCompletes(s, "getById", [id |-> id], GetByResult([id |-> id]))

getByName(s) ==
    \E name \in Names :
        /\ Free(s)
        /\ UNCHANGED nextSecret
        /\ StoreUnchanged
        /\ ReadCompletes(s, "getByName", [name |-> name],
                         GetByResult([name |-> name]))

\* exists(whereParams): !!apiToken
exists(s) ==
    \E whereParams \in Wheres :
        LET r == GetByResult(whereParams)
        IN  /\ Free(s)
            /\ UNCHANGED nextSecret
            /\ StoreUnchanged
            /\ ReadCompletes(s, "exists", [whereParams |-> whereParams],
                    [result |-> [kind |-> "bool", val |-> r.result.kind # "null"],
                     queries |-> r.queries])

\* orderBy: { name: 'ASC' }: rows in ascending name order (ties by id)
NameOrder == <<"n1", "n2">>
NameRank(name) == CHOOSE i \in 1..Len(NameOrder) : NameOrder[i] = name

\* rows in the order of their ids, whatever their names
InIdOrder(rows) == ById(rows)

RECURSIVE ByName(_)
ByName(rows) ==
    IF rows = {} THEN <<>>
    ELSE LET Before(x, y) == \/ NameRank(x.name) < NameRank(y.name)
                             \/ NameRank(x.name) = NameRank(y.name) /\ x.id <= y.id
             r == CHOOSE x \in rows : \A q \in rows : Before(x, q)
         IN  <<r>> \o ByName(rows \ {r})

list(s) ==
    LET sorted == ByName(tokens)
    IN  /\ Free(s)
        /\ UNCHANGED nextSecret
        /\ StoreUnchanged
        /\ ReadCompletes(s, "list", <<>>,
                [result |-> [kind |-> "list",
                             val |-> [i \in 1..Len(sorted) |->
                                         SelectPopulate(sorted[i], permissions)]],
                 queries |-> <<"findMany">>])

\* the caller takes the response of its completed call
Respond(s) ==
    /\ calls[s].pc = "done"
    /\ calls' = [calls EXCEPT ![s] = Idle]
    /\ UNCHANGED <<tokens, permissions, nextTokenId, nextPermId, nextSecret, shown,
                   proc>>

\* ---------------------------------------------------------- specification
Step(s) ==
    \/ CreateBegin(s)
    \/ CreateToken(s)
    \/ CreatePermissions(s)
    \/ UpdateBegin(s)
    \/ UpdateToken(s)
    \/ UpdateDeleteMany(s)
    \/ UpdateCreateMany(s)
    \/ UpdateLoad(s)
    \/ revoke(s)
    \/ getBy(s)
    \/ getById(s)
    \/ getByName(s)
    \/ exists(s)
    \/ list(s)
    \/ Respond(s)

\* one caller: every call completes before the next one starts
Next == \E s \in SeqSlots : Step(s)

Spec == Init /\ [][Next]_vars

\* ------------------------------------------------------------ the claims
\* the permission rows a token owns, and their actions
RowsOf(tokenId) == {p \in permissions : p.token = tokenId}
ActionsOfRows(rows) == {p.action : p \in rows}
ActionsOfSeq(seq) == {seq[i].action : i \in 1..Len(seq)}

NonEmptyPermissions(attributes) ==
    Has(attributes, "permissions") /\ Len(attributes.permissions) > 0

\* the condition under which the specification says a call is rejected
RejectedBySpec(type, attributes) ==
    \/ type # "custom" /\ NonEmptyPermissions(attributes)
    \/ type = "custom" /\ ~ NonEmptyPermissions(attributes)

RejectedByValidation(c) ==
    /\ c.pc = "done"
    /\ c.result.kind = "error"
    /\ c.result.err \in {NonCustomError, MissingError}

\* C1: create is rejected by validation iff (type is not custom and
\* permissions is non-empty) or (type is custom and permissions is empty or
\* absent); update of a stored token is rejected under the same condition on
\* the effective type (the supplied type, else the stored one).
\* Read where validation has just run: the store is as the call found it.
C1_FailsIff ==
    \A s \in Slots :
        LET c == calls[s]
        IN  /\ (c.op = "create"
                    /\ (c.pc = "create:token" \/ (c.pc = "done" /\ c.queries = <<>>)))
                => (RejectedByValidation(c)
                        <=> RejectedBySpec(c.args.attributes.type, c.args.attributes))
            /\ (c.op = "update"
                    /\ (c.pc = "update:token"
                        \/ (c.pc = "done" /\ c.queries = <<"findOne">>
                            /\ c.result.err # "Token not found")))
                => \A t \in tokens :
                      t.id = c.args.id =>
                        (RejectedByValidation(c)
                            <=> RejectedBySpec(
                                    IF Has(c.args.attributes, "type")
                                    THEN c.args.attributes.type ELSE t.type,
                                    c.args.attributes))

\* C2: invariant I1: in every reachable state a stored token whose type is
\* not custom owns no permission rows.
C2_NonCustomOwnsNoRows ==
    \A t \in tokens : t.type # "custom" => RowsOf(t.id) = {}

\* C3: invariant I2: when a create or an update call has returned, every
\* stored token whose type is custom owns at least one permission row.
C3_CustomOwnsRows ==
    \A s \in Slots :
        (calls[s].pc = "done" /\ calls[s].op \in {"create", "update"}
            /\ calls[s].result.kind = "ok")
        => \A t \in tokens : t.type = "custom" => RowsOf(t.id) # {}

\* C4: update of a custom token with stored actions C and requested list D
\* deletes exactly the permissions with an action in C \ D, creates exactly
\* the actions in D \ C, and returns with the stored action set equal to D.
C4_ReconcileToDesired ==
    \A s \in Slots :
        LET c == calls[s]
        IN  /\ c.pc = "update:deleteMany"
                => LET C == ActionsOfSeq(c.local.token.permissions)
                       D == SeqToSet(c.args.attributes.permissions)
                   IN  /\ ActionsOfSeq(c.local.permissionsToDelete) = C \ D
                       /\ SeqToSet(c.local.permissionsToCreate) = D \ C
            /\ (c.pc = "done" /\ c.op = "update" /\ c.result.kind = "ok"
                    /\ c.result.val.type = "custom")
                => ActionsOfRows(RowsOf(c.args.id))
                       = SeqToSet(c.args.attributes.permissions)

\* C5: reconciliation minimality: permissionsToCreate and permissionsToDelete
\* never hold the same action, and a stored permission whose action is
\* requested again is not in permissionsToDelete and its row is still stored
\* once the delete and the create have run.
C5_Minimality ==
    \A s \in Slots :
        LET c == calls[s]
        IN  /\ c.pc = "update:deleteMany"
                => /\ ActionsOfSeq(c.local.permissionsToDelete)
                          \cap SeqToSet(c.local.permissionsToCreate) = {}
                   /\ \A i \in 1..Len(c.local.permissionsToDelete) :
                          c.local.permissionsToDelete[i].action
                              \notin SeqToSet(c.args.attributes.permissions)
            /\ (c.pc = "update:load" /\ c.local.token.type = "custom")
                => \A i \in 1..Len(c.local.token.permissions) :
                      LET p == c.local.token.permissions[i]
                      IN  p.action \in SeqToSet(c.args.attributes.permissions)
                            => \E q \in RowsOf(c.args.id) :
                                  q.id = p.id /\ q.action = p.action

\* C6: reconciliation idempotence: when the requested list names exactly the
\* stored actions, permissionsToCreate and permissionsToDelete are both empty.
C6_Idempotence ==
    \A s \in Slots :
        LET c == calls[s]
        IN  (c.pc = "update:deleteMany"
                /\ SeqToSet(c.args.attributes.permissions)
                       = ActionsOfSeq(c.local.token.permissions))
            => /\ c.local.permissionsToDelete = <<>>
               /\ c.local.permissionsToCreate = <<>>

\* the keys a response object may carry: the selected and populated fields
PublicFields == SELECT_FIELDS \cup POPULATE_FIELDS

\* C7: secret exposure: the plaintext of a secret is carried by at most one
\* response, and by the response of every create that returns, whose
\* accessKey is the plaintext of the stored hash; the stored hash is carried
\* by no response; the results of update, revoke, getBy, getById, getByName
\* and list carry no accessKey at all.
C7_SecretExposure ==
    /\ \A k \in TokenIds : shown[k].plain <= 1 /\ shown[k].hmac = 0
    /\ \A s \in Slots :
        LET c == calls[s]
        IN  /\ (c.pc = "done" /\ c.op = "create" /\ c.result.kind = "ok")
                => /\ Has(c.result.val, "accessKey")
                   /\ Has(c.result.val.accessKey, "plain")
                   /\ shown[c.result.val.accessKey.plain].plain = 1
                   /\ \A t \in tokens :
                          t.id = c.result.val.id
                              => t.accessKey = hash(c.result.val.accessKey)
            /\ (c.pc = "done" /\ c.op # "create")
                => \A i \in 1..Len(Objects(c.result)) :
                      DOMAIN Objects(c.result)[i] \subseteq PublicFields

\* a token whose create returned its secret is read back by a later call
C7_Witness ==
    /\ calls[1].pc = "done"
    /\ calls[1].op \in {"update", "getById", "list"}
    /\ Len(Objects(calls[1].result)) >= 1
    /\ Objects(calls[1].result)[1].id = 1
    /\ shown[1].plain = 1

\* C8: cascade: when revoke(id) has returned the record of a stored token,
\* no token row with that id and no permission row bound to that id is stored.
C8_RevokeCascades ==
    \A s \in Slots :
        LET c == calls[s]
        IN  (c.pc = "done" /\ c.op = "revoke" /\ c.result.kind = "ok")
            => /\ c.result.val.id = c.args.id
               /\ \A t \in tokens : t.id # c.args.id
               /\ RowsOf(c.args.id) = {}

\* revoke returned a token that owned permission rows, another token remains
C8_Witness ==
    /\ calls[1].pc = "done"
    /\ calls[1].op = "revoke"
    /\ calls[1].result.kind = "ok"
    /\ calls[1].result.val.permissions # <<>>
    /\ tokens # {}

\* C9: getBy with empty criteria returns null in every store state and makes
\* no store call; exists with empty criteria is false; with non-empty
\* criteria getBy resolves to a record, and exists is true, iff some stored
\* token matches the criteria, and the record getBy resolves to matches them.
C9_GetByEmptyIsNull ==
    \A s \in Slots :
        LET c == calls[s]
            empty == c.args.whereParams = <<>>
            stored == \E t \in tokens : Matches(t, c.args.whereParams)
        IN  /\ (c.pc = "done" /\ c.op = "getBy")
                => /\ empty => (c.result.kind = "null" /\ c.queries = <<>>)
                   /\ ~ empty => ((c.result.kind = "ok") <=> stored)
                   /\ c.result.kind = "ok"
                        => Matches(c.result.val, c.args.whereParams)
            /\ (c.pc = "done" /\ c.op = "exists")
                => /\ empty => (c.result.val = FALSE /\ c.queries = <<>>)
                   /\ ~ empty => (c.result.val <=> stored)

\* getBy({}) and exists({}) answered while tokens are stored
C9_Witness ==
    /\ calls[1].pc = "done"
    /\ calls[1].op \in {"getBy", "exists"}
    /\ calls[1].args.whereParams = <<>>
    /\ Cardinality(tokens) = 2

\* C10: no partial token: in every reachable state, the states between the
\* store calls of create and the state a rejected createMany leaves included,
\* every stored custom token owns at least one permission row.
C10_NoPartialToken ==
    \A t \in tokens : t.type = "custom" => RowsOf(t.id) # {}

\* C11: update(id, attributes) on an id no stored token has throws 'Token not
\* found', having made only the findOne call: the step leaves the token rows
\* and the permission rows as they were.
C11_UpdateNotFound ==
    [][\A s \in Slots :
          (calls[s].pc = "idle" /\ calls'[s].op = "update"
              /\ ~ \E t \in tokens : t.id = calls'[s].args.id)
          => /\ calls'[s].pc = "done"
             /\ calls'[s].result.kind = "error"
             /\ calls'[s].result.err = "Token not found"
             /\ calls'[s].queries = <<"findOne">>
             /\ tokens' = tokens
             /\ permissions' = permissions]_vars

\* update of a missing id was refused while another token and its rows are stored
C11_Witness ==
    /\ calls[1].pc = "done"
    /\ calls[1].op = "update"
    /\ calls[1].result.kind = "error"
    /\ calls[1].result.err = "Token not found"
    /\ tokens # {}
    /\ permissions # {}

\* C12: a create whose token write succeeds adds exactly one token row, with
\* a fresh id, and no permission row in that step; a non-custom create then
\* returns. A custom create with the list P that succeeds adds, in its
\* createMany step, exactly one permission row per element of P, each bound
\* to the new token id and carrying that element as its action, adds no token
\* row, and returns exactly those rows as permissions.
C12_CreateAdds ==
    [][\A s \in Slots :
          /\ (calls[s].pc = "create:token" /\ calls'[s] # calls[s]
                /\ calls'[s].result.kind # "error")
             => /\ \E row \in tokens' \ tokens :
                      /\ tokens' = tokens \cup {row}
                      /\ \A t \in tokens : t.id # row.id
                      /\ row.type = calls[s].args.attributes.type
                      /\ (row.type # "custom"
                            => /\ calls'[s].pc = "done"
                               /\ calls'[s].result.kind = "ok"
                               /\ calls'[s].result.val.id = row.id
                               /\ RowsOf(row.id)' = {})
                      /\ (row.type = "custom"
                            => calls'[s].local.apiToken.id = row.id)
                /\ permissions' = permissions
          /\ (calls[s].pc = "create:permissions" /\ calls'[s] # calls[s]
                /\ calls'[s].result.kind = "ok")
             => LET P == calls[s].args.attributes.permissions
                    id == calls[s].local.apiToken.id
                    new == permissions' \ permissions
                    resp == calls'[s].result.val.permissions
                IN  /\ tokens' = tokens
                    /\ permissions \subseteq permissions'
                    /\ Cardinality(new) = Len(P)
                    /\ \A p \in new : p.token = id
                    /\ \E t \in tokens : t.id = id
                    /\ calls'[s].result.val.id = id
                    /\ Len(resp) = Len(P)
                    /\ \A i \in 1..Len(P) : resp[i].action = P[i] /\ resp[i] \in new
                    /\ {resp[i] : i \in 1..Len(P)} = new]_vars

\* a custom create with two actions has returned, and so has a non-custom one
C12_Witness ==
    /\ calls[1].pc = "done"
    /\ calls[1].op = "create"
    /\ calls[1].result.kind = "ok"
    /\ calls[1].args.attributes.type = "custom"
    /\ Len(calls[1].args.attributes.permissions) = 2
    /\ \E t \in tokens : t.type # "custom"

\* C15: no token owns two permission rows with the same action.
C15_ActionUniqueness ==
    \A p \in permissions, q \in permissions :
        (p.token = q.token /\ p.action = q.action) => p.id = q.id

ReadOps == {"list", "getBy", "getById", "getByName", "exists"}
ReadQueries == {"findOne", "findMany"}

\* C17: list, getBy, getById, getByName and exists leave every row of the
\* store as it was and make no write call; list returns every stored token,
\* once each, in ascending order of name.
C17_ReadsArePure ==
    [][\A s \in Slots :
          (calls[s].pc = "idle" /\ calls'[s].op \in ReadOps)
          => /\ tokens' = tokens
             /\ permissions' = permissions
             /\ nextTokenId' = nextTokenId
             /\ nextPermId' = nextPermId
             /\ \A i \in 1..Len(calls'[s].queries) :
                    calls'[s].queries[i] \in ReadQueries
             /\ calls'[s].op = "list"
                => LET val == calls'[s].result.val
                   IN  /\ Len(val) = Cardinality(tokens)
                       /\ {val[i].id : i \in 1..Len(val)} = {t.id : t \in tokens}
                       /\ \A i \in 1..Len(val) :
                              \E t \in tokens : t.id = val[i].id /\ t.name = val[i].name
                       /\ \A i \in 1..Len(val), j \in 1..Len(val) :
                              i < j => NameRank(val[i].name) <= NameRank(val[j].name)]_vars

\* list has returned two tokens, the later-created one first
C17_Witness ==
    /\ calls[1].pc = "done"
    /\ calls[1].op = "list"
    /\ Len(calls[1].result.val) = 2
    /\ calls[1].result.val[1].id = 2
    /\ calls[1].result.val[1].name # calls[1].result.val[2].name
    /\ permissions # {}

\* C18: a step of update(id, ..) leaves the permission rows of every token
\* other than id as they were: the rows it deletes are rows of id, and the
\* rows it creates are bound to id.
C18_UpdateIsolation ==
    [][\A s \in Slots :
          (calls[s].op = "update" /\ calls'[s] # calls[s])
          => LET id == calls[s].args.id
             IN  {p \in permissions' : p.token # id} = {p \in permissions : p.token # id}]_vars

ValidationErrors == {NonCustomError, MissingError}
WriteQueries == {"create", "update", "createMany", "deleteMany", "delete"}

\* C19: a call that validation rejects has made no write call and leaves
\* every row as it was; within create, a step changes the permission rows
\* only after the token write of that call has resolved and its row is
\* stored, and a create whose token write is rejected ends there with the
\* store unchanged.
C19_ValidationBeforeWrites ==
    [][\A s \in Slots :
          /\ (calls[s].pc # "done" /\ calls'[s].pc = "done"
                /\ calls'[s].result.kind = "error"
                /\ calls'[s].result.err \in ValidationErrors)
             => /\ tokens' = tokens
                /\ permissions' = permissions
                /\ nextTokenId' = nextTokenId
                /\ nextPermId' = nextPermId
                /\ \A i \in 1..Len(calls'[s].queries) :
                       calls'[s].queries[i] \notin WriteQueries
          /\ (calls'[s].op = "create" /\ calls'[s] # calls[s]
                /\ permissions' # permissions)
             => /\ calls[s].pc = "create:permissions"
                /\ calls[s].queries = <<"create">>
                /\ \E t \in tokens : t.id = calls[s].local.apiToken.id
                /\ \A p \in permissions' \ permissions :
                       p.token = calls[s].local.apiToken.id
          /\ (calls[s].pc = "create:token" /\ calls'[s] # calls[s]
                /\ calls'[s].result.kind = "error")
             => /\ calls'[s].pc = "done"
                /\ tokens' = tokens
                /\ permissions' = permissions]_vars

\* an update was rejected by validation while rows are stored
C19_Witness ==
    /\ calls[1].pc = "done"
    /\ calls[1].op = "update"
    /\ calls[1].result.kind = "error"
    /\ calls[1].result.err \in ValidationErrors
    /\ permissions # {}

\* a create was rejected by validation
C19_WitnessCreate ==
    /\ calls[1].pc = "done"
    /\ calls[1].op = "create"
    /\ calls[1].result.kind = "error"
    /\ calls[1].result.err \in ValidationErrors

\* ------------------------------------------------- concurrent callers
\* The store after create({ type: 'custom', name: 'n1', permissions: ['a'] }),
\* a second create and the revoke of the second token, every response taken.
InitConc ==
    /\ tokens = {[id |-> 1, createdAt |-> 1, name |-> "n1", type |-> "custom",
                  accessKey |-> hash(Secret(1))]}
    /\ permissions = {[id |-> 1, action |-> "a", token |-> 1]}
    /\ nextTokenId = MaxCreates + 1
    /\ nextPermId = 2
    /\ nextSecret = MaxCreates + 1
    /\ calls = [s \in Slots |-> Idle]
    /\ shown = [k \in TokenIds |-> [plain |-> 1, hmac |-> 0]]
    /\ proc = Configured

\* update(1, { permissions }) by a caller
UpdateConc(s) ==
    \E p \in PermLists : UpdateCall(s, 1, [permissions |-> p])

\* two callers whose update(1, ..) and revoke(1) calls interleave at every await
StepConc(s) ==
    \/ UpdateConc(s)
    \/ UpdateToken(s)
    \/ UpdateDeleteMany(s)
    \/ UpdateCreateMany(s)
    \/ UpdateLoad(s)
    \/ revoke(s) /\ calls'[s].args.id = 1
    \/ Respond(s)

NextConc == \E s \in Slots : StepConc(s)

SpecConc == InitConc /\ [][NextConc]_vars

\* C13: when both callers have completed an update of the same custom token,
\* with the lists D1 and D2, the actions of the rows the token owns are those
\* of D1 or those of D2.
C13_LastWriterWins ==
    (/\ \A s \in Slots :
            /\ calls[s].pc = "done"
            /\ calls[s].op = "update"
            /\ calls[s].result.kind = "ok"
            /\ calls[s].args.id = 1
     /\ \E t \in tokens : t.id = 1 /\ t.type = "custom")
    => ActionsOfRows(RowsOf(1)) \in
           {SeqToSet(calls[s].args.attributes.permissions) : s \in Slots}

\* C20: every stored permission row is bound to a stored token.
C20_ReferentialIntegrity ==
    \A p \in permissions : \E t \in tokens : t.id = p.token

\* ------------------------------------------------------ the salt check
MaxWarnings == 3

\* !value, for a value that is a string or undefined
TruthyString(value) == value # Undefined /\ value # ""

MissingSaltError == "Missing apiToken.salt"
VoidResult == [kind |-> "undefined"]

\* a check that warns and leaves the configuration as it is
SaltCheckWithoutSet(p) ==
    IF ~ TruthyString(p.salt) /\ TruthyString(p.API_TOKEN_SALT)
    THEN [proc |-> [p EXCEPT !.warnings = @ + 1], result |-> VoidResult]
    ELSE [proc |-> p, result |-> VoidResult]

\* checkSaltIsDefined() in the process p: the process it leaves, its outcome
SaltCheck(p) ==
    IF ~ TruthyString(p.salt)
    THEN IF TruthyString(p.API_TOKEN_SALT)
         THEN [proc |-> [p EXCEPT !.warnings = @ + 1, !.salt = p.API_TOKEN_SALT],
               result |-> VoidResult]
         ELSE [proc |-> p, result |-> Error(MissingSaltError)]
    ELSE [proc |-> p, result |-> VoidResult]

checkSaltIsDefined(s) ==
    LET r == SaltCheck(proc)
    IN  /\ Free(s)
        /\ r.proc.warnings <= MaxWarnings
        /\ proc' = r.proc
        /\ calls' = [calls EXCEPT
                        ![s] = Return(Begin("checkSaltIsDefined", <<>>), r.result)]
        /\ UNCHANGED <<tokens, permissions, nextTokenId, nextPermId, nextSecret,
                       shown>>

\* the process starts: the configuration is loaded, the environment is read
Start ==
    \E salt \in SaltValues, env \in SaltValues :
        /\ \A s \in Slots : Free(s)
        /\ proc' = [proc EXCEPT !.salt = salt, !.API_TOKEN_SALT = env]
        /\ UNCHANGED <<tokens, permissions, nextTokenId, nextPermId, nextSecret,
                       calls, shown>>

InitSalt ==
    /\ tokens = {}
    /\ permissions = {}
    /\ nextTokenId = 1
    /\ nextPermId = 1
    /\ nextSecret = 1
    /\ calls = [s \in Slots |-> Idle]
    /\ shown = [k \in TokenIds |-> [plain |-> 0, hmac |-> 0]]
    /\ proc \in [salt : SaltValues, API_TOKEN_SALT : SaltValues, warnings : {0}]

NextSalt ==
    \/ \E s \in SeqSlots : checkSaltIsDefined(s)
    \/ \E s \in SeqSlots : Respond(s)
    \/ Start

SpecSalt == InitSalt /\ [][NextSalt]_vars

\* C14: checkSaltIsDefined, with "configured" and "exists" read as "is set":
\* a set salt leaves the process as it was and raises nothing; an unset salt
\* with API_TOKEN_SALT set emits one warning and sets the salt to that value;
\* with both unset it throws the configuration error and changes nothing; and
\* after a normal return the salt is set.
C14_SaltCheckWhenSet ==
    [][\A s \in Slots :
          (calls[s].pc = "idle" /\ calls'[s].op = "checkSaltIsDefined")
          => LET raised == calls'[s].result.kind = "error"
             IN  /\ proc.salt # Undefined => (proc' = proc /\ ~ raised)
                 /\ (proc.salt = Undefined /\ proc.API_TOKEN_SALT # Undefined)
                    => /\ ~ raised
                       /\ proc'.warnings = proc.warnings + 1
                       /\ proc'.salt = proc.API_TOKEN_SALT
                 /\ (proc.salt = Undefined /\ proc.API_TOKEN_SALT = Undefined)
                    => (raised /\ proc' = proc)
                 /\ ~ raised => proc'.salt # Undefined]_vars

\* C14 (amended): checkSaltIsDefined, with "configured" and "exists" read as
\* "is a non-empty string": a non-empty salt leaves the process as it was and
\* raises nothing; without one, a non-empty API_TOKEN_SALT emits one warning
\* and becomes the salt; without either it throws the configuration error
\* and changes nothing; after a normal return the salt is a non-empty string.
C14_SaltCheckWhenTruthy ==
    [][\A s \in Slots :
          (calls[s].pc = "idle" /\ calls'[s].op = "checkSaltIsDefined")
          => LET raised == calls'[s].result.kind = "error"
             IN  /\ TruthyString(proc.salt) => (proc' = proc /\ ~ raised)
                 /\ (~ TruthyString(proc.salt) /\ TruthyString(proc.API_TOKEN_SALT))
                    => /\ ~ raised
                       /\ proc'.warnings = proc.warnings + 1
                       /\ proc'.salt = proc.API_TOKEN_SALT
                       /\ proc'.API_TOKEN_SALT = proc.API_TOKEN_SALT
                 /\ (~ TruthyString(proc.salt) /\ ~ TruthyString(proc.API_TOKEN_SALT))
                    => /\ raised
                       /\ calls'[s].result.err = MissingSaltError
                       /\ proc' = proc
                 /\ ~ raised => TruthyString(proc'.salt)]_vars

\* the check has returned after taking the salt from the environment, warning
C14_Witness ==
    /\ calls[1].pc = "done"
    /\ calls[1].op = "checkSaltIsDefined"
    /\ calls[1].result.kind # "error"
    /\ proc.warnings > 0
    /\ proc.salt = proc.API_TOKEN_SALT

\* ------------------------------------ updates that name stored columns
\* attributes that name the columns accessKey and createdAt, with or without
\* a permissions array
ColumnAttributes ==
    LET base == {[accessKey |-> hash(Secret(k))] : k \in TokenIds}
                    \cup {[createdAt |-> c] : c \in TokenIds}
                    \cup {[name |-> n] : n \in Names}
    IN  base \cup {Spread(b, [permissions |-> p]) : b \in base, p \in PermLists}

UpdateColumns(s) ==
    \E id \in TokenIds, attributes \in ColumnAttributes :
        UpdateCall(s, id, attributes)

StepColumns(s) ==
    \/ UpdateColumns(s)
    \/ UpdateToken(s)
    \/ UpdateDeleteMany(s)
    \/ UpdateCreateMany(s)
    \/ UpdateLoad(s)
    \/ getById(s)
    \/ Respond(s)

NextColumns == \E s \in SeqSlots : StepColumns(s)

SpecColumns == InitConc /\ [][NextColumns]_vars

\* C16: no step of an update call changes the id, the createdAt or the
\* accessKey of a stored token, whatever attributes the call was given.
C16_FixedAtCreation ==
    [][\A s \in Slots :
          (calls'[s].op = "update" /\ calls'[s] # calls[s])
          => /\ {t.id : t \in tokens'} = {t.id : t \in tokens}
             /\ \A t \in tokens, u \in tokens' :
                    u.id = t.id => /\ u.createdAt = t.createdAt
                                   /\ u.accessKey = t.accessKey]_vars

====
